---- MODULE Spec2Model ----
(***************************************************************************)
(* Model of fix_error_vars.py: fix_error_references(file_path) and main(). *)
(*                                                                         *)
(* Text is a sequence of lexical atoms.  Every literal that one of the     *)
(* script's regular expressions names ("catch", "error", "throw",          *)
(* "return") is one atom; every other atom is a single character.  "x"     *)
(* stands for any identifier character that is in none of the literals,    *)
(* " " and "\n" are two different whitespace characters.  The identifier   *)
(* _error is therefore the two atoms "_", "error".                         *)
(***************************************************************************)
EXTENDS Integers, Sequences, FiniteSets

\* ---------------------------------------------------------------- bounds
MaxFrags == 6
MaxBodyLen == 4

\* ------------------------------------------------------- input alphabets
Hdr == <<"catch", " ", "(", "_", "error", ")", " ", "{">>
HdrCompact == <<"catch", "(", "_", "error", ")", "{">>
HdrOld == <<"catch", "(", "error", ")", "{">>
Open == <<"{">>
Close == <<"}">>
Ref == <<"error", ".">>

Frags == {Hdr, HdrCompact, HdrOld, Open, Close, Ref}

BodyAtoms == {"error", "_", ".", "(", ")", ",", " ", ";", "throw", "return", "x"}

RECURSIVE Flatten(_)
Flatten(fs) == IF fs = <<>> THEN <<>> ELSE Head(fs) \o Flatten(Tail(fs))

Docs == {Flatten(fs) : fs \in UNION {[1..n -> Frags] : n \in 0..MaxFrags}}

Bodies == UNION {[1..n -> BodyAtoms] : n \in 0..MaxBodyLen}

\* ------------------------------------------------------ regex primitives
\* \s of the header pattern
IsWs(a) == a \in {" ", "\n"}

\* \w : the atom ends in a word character
IsWord(a) == a \in {"catch", "_", "error", "throw", "return", "x"}

Lit(s, p, a) == p >= 1 /\ p <= Len(s) /\ s[p] = a

RECURSIVE SkipWs(_, _)
SkipWs(s, p) == IF p <= Len(s) /\ IsWs(s[p]) THEN SkipWs(s, p + 1) ELSE p

\* catch\s*\(\s*_error\s*\)\s*\{ tried at position p: the position just
\* after the match, or 0 when there is no match at p.
catch_pattern(s, p) ==
    LET p1 == SkipWs(s, p + 1)
        p2 == SkipWs(s, p1 + 1)
        p3 == SkipWs(s, p2 + 2)
        p4 == SkipWs(s, p3 + 1)
    IN IF /\ Lit(s, p, "catch") /\ Lit(s, p1, "(")
          /\ Lit(s, p2, "_") /\ Lit(s, p2 + 1, "error")
          /\ Lit(s, p3, ")") /\ Lit(s, p4, "{")
       THEN p4 + 1 ELSE 0

\* The leftmost non-overlapping matches of catch_pattern from position p on,
\* each as <<first position, position just after>>.
RECURSIVE FindAll(_, _)
FindAll(s, p) ==
    IF p > Len(s) THEN <<>>
    ELSE LET e == catch_pattern(s, p)
         IN IF e > 0 THEN <<<<p, e>>>> \o FindAll(s, e) ELSE FindAll(s, p + 1)

\* Part k (k = 0 is the text before the first match) runs from the end of
\* match k to the start of match k+1, or to the end of the text.
PartToEnd(s, ms, k) ==
    SubSeq(s, IF k = 0 THEN 1 ELSE ms[k][2], Len(s))

PartAt(s, ms, k) ==
    SubSeq(s, IF k = 0 THEN 1 ELSE ms[k][2],
              IF k = Len(ms) THEN Len(s) ELSE ms[k + 1][1] - 1)

\* re.split(catch_pattern, content); element k+1 of the result is part k.
Split(s) ==
    LET ms == FindAll(s, 1)
    IN [k \in 1..(Len(ms) + 1) |-> PartAt(s, ms, k - 1)]

\* ------------------------------------------------------------ brace scan
\* The for loop over enumerate(part): j is the 1-based position, the result
\* is end_pos (0-based), which stays 0 when the count never returns to 0.
RECURSIVE Scan(_, _, _)
Scan(part, j, brace_count) ==
    IF j > Len(part) THEN 0
    ELSE IF part[j] = "{" THEN Scan(part, j + 1, brace_count + 1)
    ELSE IF part[j] = "}"
         THEN IF brace_count - 1 = 0 THEN j - 1
              ELSE Scan(part, j + 1, brace_count - 1)
    ELSE Scan(part, j + 1, brace_count)

EndPos(part) == Scan(part, 1, 1)

\* ---------------------------------------------------------- the 5 rules
\* Every rule replaces "error" by "_error" at the positions its pattern
\* matches: an "_" atom is inserted in front of each hit.
RECURSIVE Ins(_, _, _)
Ins(s, hits, p) ==
    IF p > Len(s) THEN <<>>
    ELSE (IF p \in hits THEN <<"_", s[p]>> ELSE <<s[p]>>) \o Ins(s, hits, p + 1)

\* \berror\.
Rule1HitsNoBoundary(s) ==
    {p \in 1..Len(s) : s[p] = "error" /\ Lit(s, p + 1, ".")}

Rule1Hits(s) ==
    {p \in 1..Len(s) : /\ s[p] = "error" /\ Lit(s, p + 1, ".")
                       /\ (p = 1 \/ ~IsWord(s[p - 1]))}

\* \(error\)
Rule2Hits(s) ==
    {p \in 1..Len(s) : s[p] = "error" /\ Lit(s, p - 1, "(") /\ Lit(s, p + 1, ")")}

\* , error\)
Rule3Hits(s) ==
    {p \in 1..Len(s) : /\ s[p] = "error" /\ Lit(s, p - 2, ",")
                       /\ Lit(s, p - 1, " ") /\ Lit(s, p + 1, ")")}

\* throw error;
Rule4Hits(s) ==
    {p \in 1..Len(s) : /\ s[p] = "error" /\ Lit(s, p - 2, "throw")
                       /\ Lit(s, p - 1, " ") /\ Lit(s, p + 1, ";")}

\* return error;
Rule5Hits(s) ==
    {p \in 1..Len(s) : /\ s[p] = "error" /\ Lit(s, p - 2, "return")
                       /\ Lit(s, p - 1, " ") /\ Lit(s, p + 1, ";")}

Rule1(s) == Ins(s, Rule1Hits(s), 1)
Rule2(s) == Ins(s, Rule2Hits(s), 1)
Rule3(s) == Ins(s, Rule3Hits(s), 1)
Rule4(s) == Ins(s, Rule4Hits(s), 1)
Rule5(s) == Ins(s, Rule5Hits(s), 1)

\* the five re.sub calls, each on the result of the one before
FixBody(catch_body) == Rule5(Rule4(Rule3(Rule2(Rule1(catch_body)))))

\* --------------------------------------------- pieces of one loop iteration
CatchBody(part, end_pos) == SubSeq(part, 1, end_pos)

RestRewritten(part, end_pos) == FixBody(SubSeq(part, end_pos + 1, Len(part)))

Rest(part, end_pos) == SubSeq(part, end_pos + 1, Len(part))

ChangedAlways(fixed_body, catch_body) == TRUE

Changed(fixed_body, catch_body) == fixed_body # catch_body

\* ------------------------------------------------------------------ state
VARIABLES
    disk,              \* the text of the one *.js file under extension/
    pc,                \* where main / fix_error_references stands
    pass,              \* 1: first run of the script, 2: the script run again
    original_content,  \* locals of fix_error_references
    content,
    parts,
    i,
    result,
    changes_made,
    ret,               \* the value fix_error_references returned
    wrote,             \* the file was opened for writing in this run
    total_changes,     \* locals of main
    files_changed,
    hdrs,              \* history: the header matches re.split consumed
    trace,             \* history: what each loop iteration did
    first,             \* history: outcome of the first run
    body,              \* rule pipeline on a lone body: input,
    cur,               \*   text after the rules applied so far,
    stage              \*   number of rules applied

vars == <<disk, pc, pass, original_content, content, parts, i, result,
          changes_made, ret, wrote, total_changes, files_changed, hdrs, trace,
          first, body, cur, stage>>

locals == <<original_content, content, parts, i, result, changes_made>>
mainvars == <<total_changes, files_changed>>
rulevars == <<body, cur, stage>>

NoRun == [content |-> <<>>, ret |-> 0, wrote |-> FALSE, done |-> FALSE]

Init ==
    /\ disk \in Docs
    /\ pc = "call"
    /\ pass = 1
    /\ original_content = <<>>
    /\ content = <<>>
    /\ parts = <<>>
    /\ i = 0
    /\ result = <<>>
    /\ changes_made = 0
    /\ ret = 0
    /\ wrote = FALSE
    /\ total_changes = 0
    /\ files_changed = 0
    /\ hdrs = <<>>
    /\ trace = <<>>
    /\ first = NoRun
    /\ body = <<>>
    /\ cur = <<>>
    /\ stage = 0

\* lines 13-30: read the file, split it, start the result list
ReadAndSplit ==
    /\ pc = "call"
    /\ original_content' = disk
    /\ content' = disk
    /\ changes_made' = 0
    /\ parts' = Split(disk)
    /\ hdrs' = FindAll(disk, 1)
    /\ trace' = <<>>
    /\ IF Len(parts') > 1
       THEN /\ result' = <<parts'[1]>>
            /\ i' = 1
            /\ pc' = "loop"
       ELSE /\ result' = <<>>
            /\ i' = 0
            /\ pc' = "cmp"
    /\ UNCHANGED <<disk, pass, ret, wrote, mainvars, first, rulevars>>

\* lines 32-65: one iteration whose brace scan found the closing brace
FixBlock ==
    /\ pc = "loop"
    /\ i <= Len(parts) - 1
    /\ LET part == parts[i + 1]
           end_pos == EndPos(part)
           catch_body == CatchBody(part, end_pos)
           rest == Rest(part, end_pos)
           fixed_body == FixBody(catch_body)
       IN /\ end_pos > 0
          /\ changes_made' = IF Changed(fixed_body, catch_body)
                             THEN changes_made + 1 ELSE changes_made
          /\ result' = result \o <<Hdr, fixed_body, rest>>
          /\ trace' = Append(trace, [end_pos |-> end_pos, catch_body |-> catch_body,
                                     fixed_body |-> fixed_body, rest |-> rest])
    /\ i' = i + 1
    /\ UNCHANGED <<disk, pc, pass, original_content, content, parts, ret, wrote,
                   mainvars, hdrs, first, rulevars>>

\* lines 32-48, 66-68: one iteration whose brace scan left end_pos at 0
KeepPart ==
    /\ pc = "loop"
    /\ i <= Len(parts) - 1
    /\ LET part == parts[i + 1]
           end_pos == EndPos(part)
       IN /\ ~(end_pos > 0)
          /\ result' = result \o <<Hdr, part>>
          /\ trace' = Append(trace, [end_pos |-> 0, catch_body |-> <<>>,
                                     fixed_body |-> <<>>, rest |-> part])
    /\ i' = i + 1
    /\ UNCHANGED <<disk, pc, pass, original_content, content, parts, changes_made,
                   ret, wrote, mainvars, hdrs, first, rulevars>>

\* line 70
JoinResult ==
    /\ pc = "loop"
    /\ i > Len(parts) - 1
    /\ content' = Flatten(result)
    /\ pc' = "cmp"
    /\ UNCHANGED <<disk, pass, original_content, parts, i, result, changes_made,
                   ret, wrote, mainvars, hdrs, trace, first, rulevars>>

\* lines 75-78
WriteFile ==
    /\ pc = "cmp"
    /\ content # original_content
    /\ disk' = content
    /\ wrote' = TRUE
    /\ ret' = changes_made
    /\ pc' = "ret"
    /\ UNCHANGED <<pass, locals, mainvars, hdrs, trace, first, rulevars>>

\* line 80
ReturnZero ==
    /\ pc = "cmp"
    /\ ~(content # original_content)
    /\ ret' = 0
    /\ pc' = "ret"
    /\ UNCHANGED <<disk, pass, locals, wrote, mainvars, hdrs, trace, first, rulevars>>

\* lines 89-93
Report ==
    /\ pc = "ret"
    /\ IF ret > 0
       THEN /\ total_changes' = total_changes + ret
            /\ files_changed' = files_changed + 1
       ELSE UNCHANGED mainvars
    /\ pc' = "done"
    /\ UNCHANGED <<disk, pass, locals, ret, wrote, hdrs, trace, first, rulevars>>

\* the script is started a second time on the same tree
RunAgain ==
    /\ pc = "done"
    /\ pass = 1
    /\ pass' = 2
    /\ first' = [content |-> content, ret |-> ret, wrote |-> wrote, done |-> TRUE]
    /\ pc' = "call"
    /\ ret' = 0
    /\ wrote' = FALSE
    /\ total_changes' = 0
    /\ files_changed' = 0
    /\ UNCHANGED <<disk, locals, hdrs, trace, rulevars>>

\* one run of the script
Next ==
    \/ ReadAndSplit
    \/ FixBlock
    \/ KeepPart
    \/ JoinResult
    \/ WriteFile
    \/ ReturnZero
    \/ Report

Spec == Init /\ [][Next]_vars

\* the script run, and then run again on what the first run left on disk
NextTwice ==
    \/ ReadAndSplit
    \/ FixBlock
    \/ KeepPart
    \/ JoinResult
    \/ WriteFile
    \/ ReturnZero
    \/ Report
    \/ RunAgain

SpecTwice == Init /\ [][NextTwice]_vars

\* ------------------------------------ the rule pipeline on a lone body text
InitRules ==
    /\ body \in Bodies
    /\ cur = body
    /\ stage = 0
    /\ pc = "rules"
    /\ disk = <<>>
    /\ pass = 1
    /\ original_content = <<>>
    /\ content = <<>>
    /\ parts = <<>>
    /\ i = 0
    /\ result = <<>>
    /\ changes_made = 0
    /\ ret = 0
    /\ wrote = FALSE
    /\ total_changes = 0
    /\ files_changed = 0
    /\ hdrs = <<>>
    /\ trace = <<>>
    /\ first = NoRun

RuleFrame == UNCHANGED <<disk, pc, pass, locals, ret, wrote, mainvars, hdrs,
                         trace, first, body>>

\* line 54
ApplyRule1 == stage = 0 /\ cur' = Rule1(cur) /\ stage' = 1 /\ RuleFrame
\* line 55
ApplyRule2 == stage = 1 /\ cur' = Rule2(cur) /\ stage' = 2 /\ RuleFrame
\* line 56
ApplyRule3 == stage = 2 /\ cur' = Rule3(cur) /\ stage' = 3 /\ RuleFrame
\* line 57
ApplyRule4 == stage = 3 /\ cur' = Rule4(cur) /\ stage' = 4 /\ RuleFrame
\* line 58
ApplyRule5 == stage = 4 /\ cur' = Rule5(cur) /\ stage' = 5 /\ RuleFrame

NextRules ==
    \/ ApplyRule1
    \/ ApplyRule2
    \/ ApplyRule3
    \/ ApplyRule4
    \/ ApplyRule5

SpecRules == InitRules /\ [][NextRules]_vars

\* =================================================== notions of the claims
\* The matching closing brace of the block whose body starts at position p,
\* counting every brace of the document from there on; 0 when there is none.
RECURSIVE MatchClose(_, _, _)
MatchClose(s, p, depth) ==
    IF p > Len(s) THEN 0
    ELSE IF s[p] = "{" THEN MatchClose(s, p + 1, depth + 1)
    ELSE IF s[p] = "}"
         THEN IF depth = 1 THEN p ELSE MatchClose(s, p + 1, depth - 1)
    ELSE MatchClose(s, p + 1, depth)

\* body span of header k of the document read: [BodyStart, BodyClose)
BodyStart(k) == hdrs[k][2]
BodyClose(k) == MatchClose(original_content, hdrs[k][2], 1)
Terminated(k) == BodyClose(k) > 0
HeaderText(k) == SubSeq(original_content, hdrs[k][1], hdrs[k][2] - 1)

InSomeSpan(p) ==
    \E k \in 1..Len(hdrs) : Terminated(k) /\ BodyStart(k) <= p /\ p < BodyClose(k)

HasUnterminated == \E k \in 1..Len(hdrs) : ~Terminated(k)

\* header k has another header inside its body span
HasNested(k) ==
    /\ k < Len(hdrs)
    /\ Terminated(k)
    /\ hdrs[k + 1][1] < BodyClose(k)

\* what iteration k put into the output after the header
OutOf(k) == trace[k].fixed_body \o trace[k].rest

Rewritten(k) == trace[k].end_pos > 0
BodyChanged(k) == Rewritten(k) /\ trace[k].fixed_body # trace[k].catch_body

Returned == pc \in {"ret", "done"}

\* the output text, assembled from what the iterations emitted
Assembled ==
    parts[1] \o Flatten([k \in 1..Len(trace) |-> Hdr \o OutOf(k)])

\* positions q of part k that hold the old identifier outside every body span
OutsideRefs(k) ==
    {q \in 1..Len(parts[k + 1]) :
        /\ parts[k + 1][q] = "error"
        /\ ~InSomeSpan(BodyStart(k) + q - 1)}

RECURSIVE DropBodies(_, _, _)
DropBodies(res, k, idx) ==
    IF k > Len(trace) THEN <<>>
    ELSE IF Rewritten(k)
         THEN res[idx] \o res[idx + 2] \o DropBodies(res, k + 1, idx + 3)
         ELSE res[idx] \o res[idx + 1] \o DropBodies(res, k + 1, idx + 2)

InputRemainder ==
    parts[1] \o Flatten([k \in 1..Len(trace) |-> HeaderText(k) \o trace[k].rest])

OutputRemainder == IF result = <<>> THEN content ELSE result[1] \o DropBodies(result, 1, 2)

\* C2: content preservation outside body spans.  With the rewritten body
\* spans deleted, the text read and the text produced are identical, headers
\* included.
C2_RemainderPreserved ==
    Returned => InputRemainder = OutputRemainder

\* C3: nesting.  For a terminated block with a nested header in its body, the
\* brace scan ends at the block's own closing brace.
C3_NestedScanFindsOuterClose ==
    \A k \in 1..Len(trace) :
        HasNested(k) =>
            /\ trace[k].end_pos > 0
            /\ BodyStart(k) + trace[k].end_pos = BodyClose(k)

\* every header of the document read is written exactly as the script emits it
AllCanonical == \A k \in 1..Len(hdrs) : HeaderText(k) = Hdr

\* C4: unterminated block.  A document with a header that has no closing
\* brace before the end of the text makes the call fail, so that nothing is
\* written and the file keeps its text, also when earlier blocks hold
\* rewritable references.  Stated for documents whose headers are all in the
\* emitted spelling, where a write cannot come from a respelled header.
C4_UnterminatedWritesNothing ==
    (pc # "call" /\ HasUnterminated /\ AllCanonical) =>
        (~wrote /\ disk = original_content)

\* C5: idempotence.  The second run produces the text the first run produced
\* and reports 0 changed blocks.
C5_Idempotent ==
    (pass = 2 /\ Returned) => (content = first.content /\ ret = 0)

\* C6: write guard.  The file is written only when the count is above 0 and
\* the text differs; with no match or no changed body nothing is written and
\* the count is 0.
C6_WriteGuard ==
    Returned =>
        /\ wrote => (ret > 0 /\ content # original_content)
        /\ (\A k \in 1..Len(trace) : ~BodyChanged(k)) => (~wrote /\ ret = 0)

\* C7: nested rewrite.  For a terminated block with a nested header, the
\* references in rule positions of the outer body in front of the nested
\* header are rewritten, so are those of the nested body, and a document of
\* exactly these two blocks in which both hold such a reference counts 2.
C7_NestedRewrite ==
    Returned =>
        \A k \in 1..Len(trace) :
            HasNested(k) =>
                /\ OutOf(k) = FixBody(parts[k + 1])
                /\ Terminated(k + 1) =>
                      LET inner == SubSeq(original_content, BodyStart(k + 1),
                                          BodyClose(k + 1) - 1)
                      IN /\ SubSeq(OutOf(k + 1), 1, Len(FixBody(inner))) = FixBody(inner)
                         /\ (/\ Len(hdrs) = 2
                             /\ FixBody(inner) # inner
                             /\ FixBody(parts[k + 1]) # parts[k + 1]) => ret = 2

\* C8: non-overlap and order.  The body spans rewritten so far are pairwise
\* disjoint, a later iteration's span starts after an earlier one's, and each
\* span ends no later than the start of the next header.
C8_SpansDisjointOrdered ==
    \A a \in 1..Len(trace) :
        Rewritten(a) =>
            /\ a < Len(hdrs) => BodyStart(a) + trace[a].end_pos <= hdrs[a + 1][1]
            /\ \A b \in (a + 1)..Len(trace) :
                  Rewritten(b) =>
                      /\ BodyStart(a) < BodyStart(b)
                      /\ BodyStart(a) + trace[a].end_pos <= BodyStart(b)

C8_Witness ==
    \E a \in 1..Len(trace) : \E b \in (a + 1)..Len(trace) :
        BodyChanged(a) /\ BodyChanged(b)

\* positions of the "error" atoms of s, in increasing order
ErrPos(s) ==
    LET P == {p \in 1..Len(s) : s[p] = "error"}
    IN [n \in 1..Cardinality(P) |->
           CHOOSE p \in P : Cardinality({q \in P : q <= p}) = n]

\* number of "_" atoms directly in front of position p
RECURSIVE Underscores(_, _)
Underscores(s, p) ==
    IF p > 1 /\ s[p - 1] = "_" THEN 1 + Underscores(s, p - 1) ELSE 0

\* C9: new identifier untouched.  After any number of the five rules, the
\* n-th "error" of the text is the n-th "error" of the input, and one that
\* was written _error in the input has exactly the underscores it had.
C9_NewIdentifierUntouched ==
    LET pin == ErrPos(body)
        pout == ErrPos(cur)
    IN /\ Len(pin) = Len(pout)
       /\ \A n \in 1..Len(pin) :
             Underscores(body, pin[n]) >= 1 =>
                 Underscores(cur, pout[n]) = Underscores(body, pin[n])

C9_Witness ==
    /\ stage = 5
    /\ cur # body
    /\ \E p \in 1..Len(body) : body[p] = "error" /\ Underscores(body, p) >= 1

====
